---- MODULE Spec2Model ----
(***************************************************************************)
(* A model of stl_containers::CircularList<int> (src/Container.h): a       *)
(* circular doubly-linked list with one sentinel node per list, its        *)
(* iterator and const_iterator classes, and the reverse-iterator adapter.  *)
(*                                                                         *)
(* The heap is a finite array of node cells addressed by 1..MaxNodes, the  *)
(* null pointer is 0.  The client program owns two list objects and one    *)
(* iterator variable `it`; every public operation of the class is one      *)
(* action.  `model' and `net' are history variables: the abstract element  *)
(* sequence of each list and its count of successful additions minus       *)
(* successful removals.                                                    *)
(***************************************************************************)
EXTENDS Integers, Sequences, FiniteSets, TLC

\* ------------------------------------------------------------------ bounds
MaxNodes == 6
MaxVal == 2
MaxInit == 3
\* the insertions stop at lists of MaxLen elements
MaxLen == 3
SizeWidth == 16

Nodes == 1..MaxNodes
NULL == 0
Values == 1..MaxVal
Lists == {"a", "b"}
\* T() for T = int: the value the sentinel is constructed with
DefaultT == 0
\* size_type arithmetic is modular
SizeModulus == 2 ^ SizeWidth

VARIABLES heap, lists, it, last, fault, model, net

vars == <<heap, lists, it, last, fault, model, net>>

\* ------------------------------------------------------------------- nodes
\* struct Node, as constructed: value set, both links null
Node(val) == [alloc |-> TRUE, value |-> val, next |-> NULL, prev |-> NULL]

\* a cell that holds no object (never allocated, or deleted)
FreeCell == [alloc |-> FALSE, value |-> 0, next |-> NULL, prev |-> NULL]

FreeNodes(h) == {n \in Nodes : ~h[n].alloc}

\* operator new: some cell that holds no object.  The code only ever
\* compares addresses for equality, so the lowest free address is taken.
new(h) == CHOOSE n \in FreeNodes(h) : \A m \in FreeNodes(h) : n <= m

\* --------------------------------------------------------------- iterators
\* iterator(Node* node, Node* temp_node)
iterator(node, temp_node) ==
    [kind |-> "iterator", current_ |-> node, temp_node_ |-> temp_node, valid |-> TRUE]

\* const_iterator(Node* node, Node* temp_node)
const_iterator(node, temp_node) ==
    [kind |-> "const_iterator", current_ |-> node, temp_node_ |-> temp_node, valid |-> TRUE]

\* const_iterator(iterator it): the widening conversion
const_iterator_from(i) == const_iterator(i.current_, i.temp_node_)

\* an iterator that refers to nothing the program may use (default
\* constructed, or invalidated: the pointers it held are indeterminate)
Singular == [kind |-> "iterator", current_ |-> NULL, temp_node_ |-> NULL, valid |-> FALSE]

\* iterator::operator*
iterator_deref(h, i) ==
    IF i.current_ = i.temp_node_
    THEN [threw |-> TRUE, ret |-> 0]
    ELSE [threw |-> FALSE, ret |-> h[i.current_].value]

\* iterator::operator-> (the address of the node's value: the node)
iterator_arrow(h, i) ==
    IF i.current_ = i.temp_node_
    THEN [threw |-> TRUE, ret |-> 0]
    ELSE [threw |-> FALSE, ret |-> i.current_]

\* a faulty operator++(): steps to the previous node instead of the next
iterator_preinc_backwards(h, i) ==
    IF i.current_ = i.temp_node_
    THEN [threw |-> TRUE, it |-> i, ret |-> i]
    ELSE LET j == [i EXCEPT !.current_ = h[i.current_].prev]
         IN [threw |-> FALSE, it |-> j, ret |-> j]

\* a faulty operator++(): the step is taken before the check for the sentinel
iterator_preinc_steps_first(h, i) ==
    LET j == [i EXCEPT !.current_ = h[i.current_].next]
    IN IF i.current_ = i.temp_node_
       THEN [threw |-> TRUE, it |-> j, ret |-> j]
       ELSE [threw |-> FALSE, it |-> j, ret |-> j]

\* iterator::operator++()
iterator_preinc(h, i) ==
    IF i.current_ = i.temp_node_
    THEN [threw |-> TRUE, it |-> i, ret |-> i]
    ELSE LET j == [i EXCEPT !.current_ = h[i.current_].next]
         IN [threw |-> FALSE, it |-> j, ret |-> j]

\* a faulty operator++(int): the copy is stepped, the iterator itself is not
iterator_postinc_stays(h, i) ==
    LET tmp == i
        r == iterator_preinc(h, tmp)
    IN [threw |-> r.threw, it |-> i, ret |-> r.it]

\* iterator::operator++(int)
iterator_postinc(h, i) ==
    LET tmp == i
        r == iterator_preinc(h, i)
    IN [threw |-> r.threw, it |-> r.it, ret |-> tmp]

\* a faulty operator--(): steps to the next node instead of the previous
iterator_predec_forwards(h, i) ==
    LET c1 == h[i.current_].next
        c2 == IF c1 = i.temp_node_ THEN h[c1].next ELSE c1
        j == [i EXCEPT !.current_ = c2]
    IN [threw |-> FALSE, it |-> j, ret |-> j]

\* a faulty operator--(): the second step, off the sentinel, is missing
iterator_predec_no_skip(h, i) ==
    LET c1 == h[i.current_].prev
        j == [i EXCEPT !.current_ = c1]
    IN [threw |-> FALSE, it |-> j, ret |-> j]

\* iterator::operator--()
iterator_predec(h, i) ==
    LET c1 == h[i.current_].prev
        c2 == IF c1 = i.temp_node_ THEN h[c1].prev ELSE c1
        j == [i EXCEPT !.current_ = c2]
    IN [threw |-> FALSE, it |-> j, ret |-> j]

\* iterator::operator--(int)
iterator_postdec(h, i) ==
    LET tmp == i
        r == iterator_predec(h, i)
    IN [threw |-> r.threw, it |-> r.it, ret |-> tmp]

\* iterator::operator==
iterator_eq(i, j) == i.current_ = j.current_

\* iterator::operator!=
iterator_ne(i, j) == ~iterator_eq(i, j)

\* a faulty operator*: the check for the sentinel is missing
const_iterator_deref_unchecked(h, i) ==
    [threw |-> FALSE, ret |-> h[i.current_].value]

\* const_iterator::operator*
const_iterator_deref(h, i) ==
    IF i.current_ = i.temp_node_
    THEN [threw |-> TRUE, ret |-> 0]
    ELSE [threw |-> FALSE, ret |-> h[i.current_].value]

\* const_iterator::operator->
const_iterator_arrow(h, i) ==
    IF i.current_ = i.temp_node_
    THEN [threw |-> TRUE, ret |-> 0]
    ELSE [threw |-> FALSE, ret |-> i.current_]

\* const_iterator::operator++()
const_iterator_preinc(h, i) ==
    IF i.current_ = i.temp_node_
    THEN [threw |-> TRUE, it |-> i, ret |-> i]
    ELSE LET j == [i EXCEPT !.current_ = h[i.current_].next]
         IN [threw |-> FALSE, it |-> j, ret |-> j]

\* const_iterator::operator++(int)
const_iterator_postinc(h, i) ==
    LET tmp == i
        r == const_iterator_preinc(h, i)
    IN [threw |-> r.threw, it |-> r.it, ret |-> tmp]

\* a faulty operator--(): after wrapping it rests on the sentinel
const_iterator_predec_rests(h, i) ==
    LET c1 == h[i.current_].prev
        j == [i EXCEPT !.current_ = c1]
    IN [threw |-> FALSE, it |-> j, ret |-> j]

\* const_iterator::operator--()
const_iterator_predec(h, i) ==
    LET c1 == h[i.current_].prev
        c2 == IF c1 = i.temp_node_ THEN h[c1].prev ELSE c1
        j == [i EXCEPT !.current_ = c2]
    IN [threw |-> FALSE, it |-> j, ret |-> j]

\* const_iterator::operator--(int)
const_iterator_postdec(h, i) ==
    LET tmp == i
        r == const_iterator_predec(h, i)
    IN [threw |-> r.threw, it |-> r.it, ret |-> tmp]

\* const_iterator::operator==
const_iterator_eq(i, j) == i.current_ = j.current_

\* const_iterator::operator!=
const_iterator_ne(i, j) == ~const_iterator_eq(i, j)

\* ------------------------------------------------------- list: observers
\* size()
size(L) == L.size_

\* empty()
empty(L) == L.size_ = 0

\* begin()
begin(h, L) == iterator(h[L.temp_node_].next, L.temp_node_)

\* cbegin() and begin() const
cbegin(h, L) == const_iterator(h[L.temp_node_].next, L.temp_node_)

\* end()
end(L) == iterator(L.temp_node_, L.temp_node_)

\* cend() and end() const
cend(L) == const_iterator(L.temp_node_, L.temp_node_)

\* a faulty front(): the check for the empty list is missing
front_unchecked(h, L) ==
    [threw |-> FALSE, ret |-> h[h[L.temp_node_].next].value]

\* front()
front(h, L) ==
    IF empty(L)
    THEN [threw |-> TRUE, ret |-> 0]
    ELSE [threw |-> FALSE, ret |-> h[h[L.temp_node_].next].value]

\* front() const
front_const(h, L) ==
    IF empty(L)
    THEN [threw |-> TRUE, ret |-> 0]
    ELSE [threw |-> FALSE, ret |-> h[h[L.temp_node_].next].value]

\* a faulty back(): it reads the sentinel's successor
back_reads_next(h, L) ==
    IF empty(L)
    THEN [threw |-> TRUE, ret |-> 0]
    ELSE [threw |-> FALSE, ret |-> h[h[L.temp_node_].next].value]

\* back()
back(h, L) ==
    IF empty(L)
    THEN [threw |-> TRUE, ret |-> 0]
    ELSE [threw |-> FALSE, ret |-> h[h[L.temp_node_].prev].value]

\* back() const
back_const(h, L) ==
    IF empty(L)
    THEN [threw |-> TRUE, ret |-> 0]
    ELSE [threw |-> FALSE, ret |-> h[h[L.temp_node_].prev].value]

\* ------------------------------------------------------- list: mutators
\* A list operation yields the new heap, the new list object, the iterator
\* it returns, whether it threw std::out_of_range, whether it dereferenced
\* a null pointer (fault) and the set of nodes it deleted.

\* CircularList()
CircularList(h) ==
    LET s == new(h)
        h1 == [h EXCEPT ![s] = Node(DefaultT)]
        h2 == [h1 EXCEPT ![s].next = s]
        h3 == [h2 EXCEPT ![s].prev = s]
    IN [heap |-> h3, list |-> [temp_node_ |-> s, size_ |-> 0]]

\* a faulty emplace: the new node is spliced after pos's node, not before it
emplace_after_pos(h, L, pos, val) ==
    LET newNode == new(h)
        target == pos.current_
        h0 == [h EXCEPT ![newNode] = Node(val)]
        h1 == [h0 EXCEPT ![newNode].prev = target]
        h2 == [h1 EXCEPT ![newNode].next = h1[target].next]
        h3 == [h2 EXCEPT ![h2[target].next].prev = newNode]
        h4 == [h3 EXCEPT ![target].next = newNode]
    IN IF target = NULL
       THEN [heap |-> h1, list |-> L, ret |-> Singular,
             threw |-> FALSE, fault |-> TRUE, freed |-> {}]
       ELSE [heap |-> h4, list |-> [L EXCEPT !.size_ = (@ + 1) % SizeModulus],
             ret |-> iterator(newNode, L.temp_node_),
             threw |-> FALSE, fault |-> FALSE, freed |-> {}]

\* a faulty emplace: the last link, target->prev = newNode, is forgotten
emplace_no_back_link(h, L, pos, val) ==
    LET newNode == new(h)
        target == pos.current_
        h0 == [h EXCEPT ![newNode] = Node(val)]
        h1 == [h0 EXCEPT ![newNode].next = target]
        h2 == [h1 EXCEPT ![newNode].prev = h1[target].prev]
        h3 == [h2 EXCEPT ![h2[target].prev].next = newNode]
    IN IF target = NULL
       THEN [heap |-> h1, list |-> L, ret |-> Singular,
             threw |-> FALSE, fault |-> TRUE, freed |-> {}]
       ELSE [heap |-> h3, list |-> [L EXCEPT !.size_ = (@ + 1) % SizeModulus],
             ret |-> iterator(newNode, L.temp_node_),
             threw |-> FALSE, fault |-> FALSE, freed |-> {}]

\* emplace(const_iterator pos, Args&&... args)
emplace(h, L, pos, val) ==
    LET newNode == new(h)
        target == pos.current_
        h0 == [h EXCEPT ![newNode] = Node(val)]
        h1 == [h0 EXCEPT ![newNode].next = target]
        h2 == [h1 EXCEPT ![newNode].prev = h1[target].prev]
        h3 == [h2 EXCEPT ![h2[target].prev].next = newNode]
        h4 == [h3 EXCEPT ![target].prev = newNode]
    IN IF target = NULL
       THEN [heap |-> h1, list |-> L, ret |-> Singular,
             threw |-> FALSE, fault |-> TRUE, freed |-> {}]
       ELSE [heap |-> h4, list |-> [L EXCEPT !.size_ = (@ + 1) % SizeModulus],
             ret |-> iterator(newNode, L.temp_node_),
             threw |-> FALSE, fault |-> FALSE, freed |-> {}]

\* insert(const_iterator pos, const T& value)
insert_copy(h, L, pos, val) == emplace(h, L, pos, val)

\* insert(const_iterator pos, T&& value)
insert_move(h, L, pos, val) == emplace(h, L, pos, val)

\* push_back(const T& value)
push_back(h, L, val) == insert_copy(h, L, const_iterator_from(end(L)), val)

\* a faulty push_front: the element is inserted after the first one
push_front_second(h, L, val) ==
    insert_copy(h, L, const_iterator(h[begin(h, L).current_].next, L.temp_node_), val)

\* push_front(const T& value)
push_front(h, L, val) == insert_copy(h, L, const_iterator_from(begin(h, L)), val)

\* a faulty erase: the iterator returned is at the node before the erased one
erase_returns_prev(h, L, pos) ==
    LET target == pos.current_
        h1 == [h EXCEPT ![h[target].prev].next = h[target].next]
        h2 == [h1 EXCEPT ![h1[target].next].prev = h1[target].prev]
        next == iterator(h2[target].prev, L.temp_node_)
        h3 == [h2 EXCEPT ![target] = FreeCell]
        thrown == [heap |-> h, list |-> L, ret |-> Singular,
                   threw |-> TRUE, fault |-> FALSE, freed |-> {}]
    IN IF empty(L) THEN thrown
       ELSE IF target = L.temp_node_ THEN thrown
       ELSE [heap |-> h3, list |-> [L EXCEPT !.size_ = (@ + SizeModulus - 1) % SizeModulus],
             ret |-> next, threw |-> FALSE, fault |-> FALSE, freed |-> {target}]

\* a faulty erase: --size_ is done before the check for the end position
erase_decrements_first(h, L, pos) ==
    LET target == pos.current_
        h1 == [h EXCEPT ![h[target].prev].next = h[target].next]
        h2 == [h1 EXCEPT ![h1[target].next].prev = h1[target].prev]
        next == iterator(h2[target].next, L.temp_node_)
        h3 == [h2 EXCEPT ![target] = FreeCell]
        less == [L EXCEPT !.size_ = (@ + SizeModulus - 1) % SizeModulus]
    IN IF empty(L)
       THEN [heap |-> h, list |-> L, ret |-> Singular,
             threw |-> TRUE, fault |-> FALSE, freed |-> {}]
       ELSE IF target = L.temp_node_
       THEN [heap |-> h, list |-> less, ret |-> Singular,
             threw |-> TRUE, fault |-> FALSE, freed |-> {}]
       ELSE [heap |-> h3, list |-> less,
             ret |-> next, threw |-> FALSE, fault |-> FALSE, freed |-> {target}]

\* a faulty erase: the check for an empty list is missing
erase_no_empty_check(h, L, pos) ==
    LET target == pos.current_
        h1 == [h EXCEPT ![h[target].prev].next = h[target].next]
        h2 == [h1 EXCEPT ![h1[target].next].prev = h1[target].prev]
        next == iterator(h2[target].next, L.temp_node_)
        h3 == [h2 EXCEPT ![target] = FreeCell]
        thrown == [heap |-> h, list |-> L, ret |-> Singular,
                   threw |-> TRUE, fault |-> FALSE, freed |-> {}]
    IN IF target = L.temp_node_ THEN thrown
       ELSE [heap |-> h3, list |-> [L EXCEPT !.size_ = (@ + SizeModulus - 1) % SizeModulus],
             ret |-> next, threw |-> FALSE, fault |-> FALSE, freed |-> {target}]

\* a faulty erase: the value of the next element is copied over the erased
\* one and the next node is the one unlinked and deleted
erase_by_copy(h, L, pos) ==
    LET target == pos.current_
        victim == h[target].next
        h1 == [h EXCEPT ![target].value = h[victim].value]
        h2 == [h1 EXCEPT ![target].next = h1[victim].next]
        h3 == [h2 EXCEPT ![h2[victim].next].prev = target]
        h4 == [h3 EXCEPT ![victim] = FreeCell]
        thrown == [heap |-> h, list |-> L, ret |-> Singular,
                   threw |-> TRUE, fault |-> FALSE, freed |-> {}]
    IN IF empty(L) THEN thrown
       ELSE IF target = L.temp_node_ THEN thrown
       ELSE IF victim = L.temp_node_
       THEN [heap |-> [[[h EXCEPT ![h[target].prev].next = victim]
                           EXCEPT ![victim].prev = h[target].prev]
                           EXCEPT ![target] = FreeCell],
             list |-> [L EXCEPT !.size_ = (@ + SizeModulus - 1) % SizeModulus],
             ret |-> iterator(victim, L.temp_node_),
             threw |-> FALSE, fault |-> FALSE, freed |-> {target}]
       ELSE [heap |-> h4, list |-> [L EXCEPT !.size_ = (@ + SizeModulus - 1) % SizeModulus],
             ret |-> iterator(target, L.temp_node_),
             threw |-> FALSE, fault |-> FALSE, freed |-> {victim}]

\* erase(const_iterator pos)
erase(h, L, pos) ==
    LET target == pos.current_
        h1 == [h EXCEPT ![h[target].prev].next = h[target].next]
        h2 == [h1 EXCEPT ![h1[target].next].prev = h1[target].prev]
        next == iterator(h2[target].next, L.temp_node_)
        h3 == [h2 EXCEPT ![target] = FreeCell]
        thrown == [heap |-> h, list |-> L, ret |-> Singular,
                   threw |-> TRUE, fault |-> FALSE, freed |-> {}]
    IN IF empty(L) THEN thrown
       ELSE IF target = L.temp_node_ THEN thrown
       ELSE [heap |-> h3, list |-> [L EXCEPT !.size_ = (@ + SizeModulus - 1) % SizeModulus],
             ret |-> next, threw |-> FALSE, fault |-> FALSE, freed |-> {target}]

\* pop_front()
pop_front(h, L) == erase(h, L, const_iterator_from(begin(h, L)))

\* a faulty pop_back(): end() is passed to erase as it is, not decremented
pop_back_at_end(h, L) == erase(h, L, const_iterator_from(end(L)))

\* pop_back()
pop_back(h, L) == erase(h, L, const_iterator_from(iterator_predec(h, end(L)).it))

\* a faulty clear(): the loop stops one element early, while (size_ > 1)
RECURSIVE clear_leaves_one(_, _)
clear_leaves_one(h, L) ==
    IF L.size_ > 1
    THEN LET r == pop_front(h, L)
             rest == clear_leaves_one(r.heap, r.list)
         IN IF r.threw THEN r
            ELSE [rest EXCEPT !.freed = r.freed \cup @]
    ELSE [heap |-> h, list |-> L, ret |-> Singular,
          threw |-> FALSE, fault |-> FALSE, freed |-> {}]

\* clear(): while (!empty()) pop_front();
RECURSIVE clear(_, _)
clear(h, L) ==
    IF ~empty(L)
    THEN LET r == pop_front(h, L)
             rest == clear(r.heap, r.list)
         IN IF r.threw THEN r
            ELSE [rest EXCEPT !.freed = r.freed \cup @]
    ELSE [heap |-> h, list |-> L, ret |-> Singular,
          threw |-> FALSE, fault |-> FALSE, freed |-> {}]

\* for (const auto& item : other) push_back(item);
\* i runs over other from begin() const, e is other's end() const
RECURSIVE copy_loop(_, _, _, _)
copy_loop(h, L, i, e) ==
    IF const_iterator_ne(i, e)
    THEN LET item == const_iterator_deref(h, i).ret
             r == push_back(h, L, item)
         IN IF r.fault THEN r
            ELSE copy_loop(r.heap, r.list, const_iterator_preinc(r.heap, i).it, e)
    ELSE [heap |-> h, list |-> L, ret |-> Singular,
          threw |-> FALSE, fault |-> FALSE, freed |-> {}]

\* CircularList(std::initializer_list<T> init)
RECURSIVE init_loop(_, _, _)
init_loop(h, L, init) ==
    IF init = << >>
    THEN [heap |-> h, list |-> L]
    ELSE LET r == push_back(h, L, Head(init))
         IN init_loop(r.heap, r.list, Tail(init))

CircularList_init(h, init) ==
    LET c == CircularList(h) IN init_loop(c.heap, c.list, init)

\* a faulty copy constructor: the members are copied, the nodes are shared
CircularList_copy_shallow(h, other) ==
    [heap |-> h, list |-> [temp_node_ |-> other.temp_node_, size_ |-> other.size_],
     ret |-> Singular, threw |-> FALSE, fault |-> FALSE, freed |-> {}]

\* CircularList(const CircularList& other)
CircularList_copy(h, other) ==
    LET c == CircularList(h)
    IN copy_loop(c.heap, c.list, cbegin(c.heap, other), cend(other))

\* a faulty move constructor: other.size_ = 0 is forgotten
CircularList_move_size_kept(h, other) ==
    [heap |-> h,
     list |-> [temp_node_ |-> other.temp_node_, size_ |-> other.size_],
     other |-> [temp_node_ |-> NULL, size_ |-> other.size_]]

\* CircularList(CircularList&& other)
CircularList_move(h, other) ==
    [heap |-> h,
     list |-> [temp_node_ |-> other.temp_node_, size_ |-> other.size_],
     other |-> [temp_node_ |-> NULL, size_ |-> 0]]

\* delete p (delete of a null pointer does nothing)
delete(h, p) == IF p = NULL THEN h ELSE [h EXCEPT ![p] = FreeCell]

\* ~CircularList()
destructor(h, L) ==
    LET c == clear(h, L)
    IN [heap |-> delete(c.heap, L.temp_node_),
        freed |-> c.freed \cup ({L.temp_node_} \ {NULL})]

\* operator=(const CircularList& other), this != &other
copy_assign(h, L, other) ==
    LET c == clear(h, L)
        r == copy_loop(c.heap, c.list, cbegin(c.heap, other), cend(other))
    IN [r EXCEPT !.freed = c.freed]

\* a faulty move assignment: delete temp_node_ is forgotten
move_assign_keeps_sentinel(h, L, other) ==
    LET c == clear(h, L)
    IN [heap |-> c.heap,
        list |-> [temp_node_ |-> other.temp_node_, size_ |-> other.size_],
        other |-> [temp_node_ |-> NULL, size_ |-> 0],
        freed |-> c.freed]

\* operator=(CircularList&& other), this != &other
move_assign(h, L, other) ==
    LET c == clear(h, L)
    IN [heap |-> delete(c.heap, L.temp_node_),
        list |-> [temp_node_ |-> other.temp_node_, size_ |-> other.size_],
        other |-> [temp_node_ |-> NULL, size_ |-> 0],
        freed |-> c.freed \cup ({L.temp_node_} \ {NULL})]

\* ------------------------------------------------ std::reverse_iterator
\* std::reverse_iterator<iterator>: the adapter keeps a base iterator
reverse_iterator(base) == [base |-> base]

\* rbegin()
rbegin(L) == reverse_iterator(end(L))

\* rend()
rend(h, L) == reverse_iterator(begin(h, L))

\* reverse_iterator::operator*: Iter tmp = current; return *--tmp;
reverse_deref(h, r) == iterator_deref(h, iterator_predec(h, r.base).it)

\* reverse_iterator::operator++: --current;
reverse_preinc(h, r) == reverse_iterator(iterator_predec(h, r.base).it)

\* reverse_iterator::operator->: the address of what operator* yields
reverse_arrow(h, r) == iterator_arrow(h, iterator_predec(h, r.base).it)

\* reverse_iterator::operator--: ++current;
reverse_predec(h, r) ==
    LET b == iterator_preinc(h, r.base)
    IN [threw |-> b.threw, it |-> reverse_iterator(b.it)]

\* operator!= of two reverse iterators: their bases differ
reverse_ne(r, q) == iterator_ne(r.base, q.base)

\* ------------------------------------------------------- traversal loops
\* for (auto it = list.begin(); it != list.end(); ++it) values.push_back(*it);
\* (gtests.cpp, ForwardIteration).  fuel bounds the number of rounds: a loop
\* that is still running when it is spent has not terminated.
RECURSIVE ForwardLoop(_, _, _, _, _)
ForwardLoop(h, i, e, values, fuel) ==
    IF iterator_ne(i, e)
    THEN IF fuel = 0 \/ iterator_deref(h, i).threw
         THEN [values |-> values, done |-> FALSE]
         ELSE ForwardLoop(h, iterator_preinc(h, i).it, e,
                          Append(values, iterator_deref(h, i).ret), fuel - 1)
    ELSE [values |-> values, done |-> TRUE]

ForwardIteration(h, L) == ForwardLoop(h, begin(h, L), end(L), << >>, MaxNodes + 1)

\* for (auto it = list.rbegin(); it != list.rend(); ++it) values.push_back(*it);
\* (gtests.cpp, ReverseIteration)
RECURSIVE ReverseLoop(_, _, _, _, _)
ReverseLoop(h, r, e, values, fuel) ==
    IF reverse_ne(r, e)
    THEN IF fuel = 0 \/ reverse_deref(h, r).threw
         THEN [values |-> values, done |-> FALSE]
         ELSE ReverseLoop(h, reverse_preinc(h, r), e,
                          Append(values, reverse_deref(h, r).ret), fuel - 1)
    ELSE [values |-> values, done |-> TRUE]

ReverseIteration(h, L) == ReverseLoop(h, rbegin(L), rend(h, L), << >>, MaxNodes + 1)

\* ------------------------------------------------------- the client state
\* a list object the program may call any member of
Usable(l) == lists[l].st = "live" /\ lists[l].temp_node_ # NULL

\* a list object that was the source of a move
MovedFrom(l) == lists[l].st = "live" /\ lists[l].temp_node_ = NULL

\* the nodes of the ring of sentinel s, in next order, sentinel excluded
RECURSIVE RingFrom(_, _, _, _)
RingFrom(h, n, s, fuel) ==
    IF n = s \/ n = NULL \/ fuel = 0 THEN << >>
    ELSE <<n>> \o RingFrom(h, h[n].next, s, fuel - 1)

Ring(h, L) == RingFrom(h, h[L.temp_node_].next, L.temp_node_, MaxNodes)

\* the 1-based position of node n in the list (Len + 1 for the sentinel)
PosIndex(h, L, n) ==
    LET ring == Ring(h, L)
    IN IF \E k \in 1..Len(ring) : ring[k] = n
       THEN CHOOSE k \in 1..Len(ring) : ring[k] = n
       ELSE Len(ring) + 1

InsertAt(s, k, v) == SubSeq(s, 1, k - 1) \o <<v>> \o SubSeq(s, k, Len(s))

RemoveAt(s, k) == SubSeq(s, 1, k - 1) \o SubSeq(s, k + 1, Len(s))

SeqsUpTo(n) == UNION {[1..k -> Values] : k \in 0..n}

\* what is left of the client's iterator once the nodes in freed are deleted
Keep(i, freed) ==
    IF i.valid /\ (i.current_ \in freed \/ i.temp_node_ \in freed)
    THEN Singular ELSE i

NoList == [st |-> "none", temp_node_ |-> NULL, size_ |-> 0]

Live(L) == [st |-> "live", temp_node_ |-> L.temp_node_, size_ |-> L.size_]

Obj(l) == [temp_node_ |-> lists[l].temp_node_, size_ |-> lists[l].size_]

\* the record of the last call: the operation, the list it was called on,
\* its argument (the node of the position passed or of the iterator operated
\* on, as addressed before the call; for an assignment or a destruction, 1
\* when the target had been moved from; for clear, the number of nodes it
\* released), the value passed or read, whether
\* std::out_of_range was thrown, the node of the iterator or pointer
\* returned, as addressed after the call, and the list object passed to a
\* copy, a move or an assignment (l itself for the other operations)
Did(op, l, arg, val, threw, ret) ==
    [op |-> op, l |-> l, arg |-> arg, val |-> val, threw |-> threw, ret |-> ret,
     src |-> l]

\* the record of a call that was passed the list object o
From(o, lab) == [lab EXCEPT !.src = o]

\* ---------------------------------------------------------------- addresses
\* The code uses an address only to follow it and to compare it for equality
\* (iterator::operator==), so two heaps that differ by a renaming of
\* addresses are the same program state.  Each call ends by renaming the
\* addresses in use to 1, 2, ... in a fixed order: list a's sentinel and
\* elements in ring order, then list b's, then any other allocated node.
ListOrder == <<"a", "b">>

RECURSIVE Distinct(_, _)
Distinct(s, seen) ==
    IF s = << >> THEN << >>
    ELSE IF Head(s) \in seen THEN Distinct(Tail(s), seen)
    ELSE <<Head(s)>> \o Distinct(Tail(s), seen \cup {Head(s)})

RECURSIVE Ascending(_)
Ascending(S) ==
    IF S = {} THEN << >>
    ELSE LET m == CHOOSE x \in S : \A y \in S : x <= y
         IN <<m>> \o Ascending(S \ {m})

Chain(h, L) ==
    IF L.temp_node_ = NULL THEN << >>
    ELSE <<L.temp_node_>> \o Ring(h, L)

AddressOrder(h, ls) ==
    LET raw == Chain(h, ls[ListOrder[1]]) \o Chain(h, ls[ListOrder[2]])
               \o Ascending({n \in Nodes : h[n].alloc})
    IN Distinct(SelectSeq(raw, LAMBDA n : h[n].alloc), {})

\* the new address of every old address (NULL for one that is not in use)
Renaming(ord) ==
    [n \in 0..MaxNodes |->
          IF \E k \in 1..Len(ord) : ord[k] = n
          THEN CHOOSE k \in 1..Len(ord) : ord[k] = n
          ELSE NULL]

\* the state a call leaves: heap h, list objects ls, the client's iterator i
\* and the call's record lab, under the renaming
Commit(h, ls, i, lab) ==
    \E ord \in {AddressOrder(h, ls)} : \E ren \in {Renaming(ord)} :
       /\ heap' = [k \in Nodes |->
                     IF k <= Len(ord)
                     THEN [alloc |-> TRUE, value |-> h[ord[k]].value,
                           next |-> ren[h[ord[k]].next], prev |-> ren[h[ord[k]].prev]]
                     ELSE FreeCell]
       /\ lists' = [l \in Lists |-> [ls[l] EXCEPT !.temp_node_ = ren[@]]]
       /\ it' = IF i.valid
                THEN [i EXCEPT !.current_ = ren[@], !.temp_node_ = ren[@]]
                ELSE i
       /\ last' = [lab EXCEPT !.ret = ren[@]]

Init ==
    /\ heap = [n \in Nodes |-> FreeCell]
    /\ lists = [l \in Lists |-> NoList]
    /\ it = Singular
    /\ last = Did("none", "a", 0, 0, FALSE, 0)
    /\ fault = FALSE
    /\ model = [l \in Lists |-> << >>]
    /\ net = [l \in Lists |-> 0]

\* ---------------------------------------------------------- construction
\* CircularList<int> l;
Construct(l) ==
    /\ ~fault /\ lists[l].st = "none" /\ FreeNodes(heap) # {}
    /\ \E c \in {CircularList(heap)} :
          Commit(c.heap, [lists EXCEPT ![l] = Live(c.list)], it,
                 Did("construct", l, 0, 0, FALSE, 0))
    /\ model' = [model EXCEPT ![l] = << >>]
    /\ net' = [net EXCEPT ![l] = 0]
    /\ UNCHANGED fault

\* CircularList<int> l{...};
ConstructInit(l) ==
    /\ ~fault /\ lists[l].st = "none"
    /\ \E init \in SeqsUpTo(MaxInit) :
        /\ init # << >>
        /\ Cardinality(FreeNodes(heap)) >= Len(init) + 1
        /\ \E c \in {CircularList_init(heap, init)} :
              Commit(c.heap, [lists EXCEPT ![l] = Live(c.list)], it,
                     Did("construct_init", l, 0, 0, FALSE, 0))
        /\ model' = [model EXCEPT ![l] = init]
        /\ net' = [net EXCEPT ![l] = Len(init)]
    /\ UNCHANGED fault

\* CircularList<int> l(o);
CopyConstruct(l, o) ==
    /\ ~fault /\ lists[l].st = "none" /\ Usable(o)
    /\ Cardinality(FreeNodes(heap)) >= Len(model[o]) + 1
    /\ \E c \in {CircularList_copy(heap, Obj(o))} :
          Commit(c.heap, [lists EXCEPT ![l] = Live(c.list)], it,
                 From(o, Did("copy_construct", l, 0, 0, FALSE, 0)))
    /\ model' = [model EXCEPT ![l] = model[o]]
    /\ net' = [net EXCEPT ![l] = Len(model[o])]
    /\ UNCHANGED fault

\* CircularList<int> l(std::move(o));
MoveConstruct(l, o) ==
    /\ ~fault /\ lists[l].st = "none" /\ Usable(o)
    /\ \E c \in {CircularList_move(heap, Obj(o))} :
          Commit(c.heap, [lists EXCEPT ![l] = Live(c.list), ![o] = Live(c.other)], it,
                 From(o, Did("move_construct", l, 0, 0, FALSE, 0)))
    /\ model' = [model EXCEPT ![l] = model[o], ![o] = << >>]
    /\ net' = [net EXCEPT ![l] = net[o], ![o] = 0]
    /\ UNCHANGED fault

\* l goes out of scope
Destroy(l) ==
    /\ ~fault /\ lists[l].st = "live"
    /\ \E d \in {destructor(heap, Obj(l))} :
          Commit(d.heap, [lists EXCEPT ![l] = NoList], Keep(it, d.freed),
                 Did("destroy", l, IF MovedFrom(l) THEN 1 ELSE 0, 0, FALSE, 0))
    /\ model' = [model EXCEPT ![l] = << >>]
    /\ net' = [net EXCEPT ![l] = 0]
    /\ UNCHANGED fault

\* ------------------------------------------------------------ assignment
\* l = o;  (copy assignment; l = l takes the this == &other branch)
\* Assigning elements to a list that has no sentinel reads through a null
\* pointer: the process faults, either at that access (the list is as it
\* was) or after running on (size_ counted the element that was not linked).
CopyAssign(l, o) ==
    /\ ~fault /\ lists[l].st = "live" /\ (Usable(o) \/ o = l)
    /\ IF o = l
       THEN /\ last' = Did("copy_assign", l, 0, 0, FALSE, 0)
            /\ UNCHANGED <<heap, lists, it, fault, model, net>>
       ELSE /\ Cardinality(FreeNodes(heap)) + Len(model[l]) >= Len(model[o])
            /\ (MovedFrom(l) /\ ~empty(Obj(o))) => FreeNodes(heap) # {}
            /\ \E r \in {copy_assign(heap, Obj(l), Obj(o))} :
               \E lab \in {From(o, Did("copy_assign", l, IF MovedFrom(l) THEN 1 ELSE 0, 0, FALSE, 0))} :
                  /\ fault' = r.fault
                  /\ IF r.fault
                     THEN \E outcome \in {"trap", "run_on"} :
                            Commit(r.heap,
                                   [lists EXCEPT ![l].size_ =
                                      IF outcome = "trap" THEN @
                                      ELSE (@ + 1) % SizeModulus],
                                   Keep(it, r.freed), lab)
                     ELSE Commit(r.heap, [lists EXCEPT ![l] = Live(r.list)],
                                 Keep(it, r.freed), lab)
            /\ model' = [model EXCEPT ![l] = model[o]]
            /\ net' = [net EXCEPT ![l] = Len(model[o])]

\* l = std::move(o);  (move assignment; self-assignment does nothing)
MoveAssign(l, o) ==
    /\ ~fault /\ lists[l].st = "live" /\ (Usable(o) \/ o = l)
    /\ IF o = l
       THEN /\ last' = Did("move_assign", l, 0, 0, FALSE, 0)
            /\ UNCHANGED <<heap, lists, it, model, net>>
       ELSE /\ \E r \in {move_assign(heap, Obj(l), Obj(o))} :
                  Commit(r.heap,
                         [lists EXCEPT ![l] = Live(r.list), ![o] = Live(r.other)],
                         Keep(it, r.freed),
                         From(o, Did("move_assign", l, IF MovedFrom(l) THEN 1 ELSE 0,
                                     0, FALSE, 0)))
            /\ model' = [model EXCEPT ![l] = model[o], ![o] = << >>]
            /\ net' = [net EXCEPT ![l] = net[o], ![o] = 0]
    /\ UNCHANGED fault

\* -------------------------------------------------------------- mutation
\* the positions of list l: its elements' nodes and its sentinel
Positions(l) ==
    {lists[l].temp_node_} \cup {Ring(heap, Obj(l))[k] : k \in 1..Len(Ring(heap, Obj(l)))}

\* the valid iterators of list l, as the const_iterator the mutators take
IteratorsOf(l) == {const_iterator(n, lists[l].temp_node_) : n \in Positions(l)}

\* the common shape of l.emplace(pos, v) and the two insert overloads
Inserting(op, l, pos, v, r) ==
    /\ Commit(r.heap, [lists EXCEPT ![l] = Live(r.list)], it,
              Did(op, l, pos.current_, v, FALSE, r.ret.current_))
    /\ model' = [model EXCEPT ![l] = InsertAt(@, PosIndex(heap, Obj(l), pos.current_), v)]
    /\ net' = [net EXCEPT ![l] = @ + 1]
    /\ UNCHANGED fault

\* l.emplace(pos, v);
Emplace(l, v) ==
    /\ ~fault /\ Usable(l) /\ FreeNodes(heap) # {} /\ size(Obj(l)) < MaxLen
    /\ \E pos \in IteratorsOf(l) :
         Inserting("emplace", l, pos, v, emplace(heap, Obj(l), pos, v))

\* l.insert(pos, v);  with v an lvalue
InsertCopy(l, v) ==
    /\ ~fault /\ Usable(l) /\ FreeNodes(heap) # {} /\ size(Obj(l)) < MaxLen
    /\ \E pos \in IteratorsOf(l) :
         Inserting("insert_copy", l, pos, v, insert_copy(heap, Obj(l), pos, v))

\* l.insert(pos, std::move(v));
InsertMove(l, v) ==
    /\ ~fault /\ Usable(l) /\ FreeNodes(heap) # {} /\ size(Obj(l)) < MaxLen
    /\ \E pos \in IteratorsOf(l) :
         Inserting("insert_move", l, pos, v, insert_move(heap, Obj(l), pos, v))

\* l.push_back(v);
PushBack(l, v) ==
    /\ ~fault /\ Usable(l) /\ FreeNodes(heap) # {} /\ size(Obj(l)) < MaxLen
    /\ \E r \in {push_back(heap, Obj(l), v)} :
          Commit(r.heap, [lists EXCEPT ![l] = Live(r.list)], it,
                 Did("push_back", l, 0, v, FALSE, 0))
    /\ model' = [model EXCEPT ![l] = Append(@, v)]
    /\ net' = [net EXCEPT ![l] = @ + 1]
    /\ UNCHANGED fault

\* l.push_front(v);
PushFront(l, v) ==
    /\ ~fault /\ Usable(l) /\ FreeNodes(heap) # {} /\ size(Obj(l)) < MaxLen
    /\ \E r \in {push_front(heap, Obj(l), v)} :
          Commit(r.heap, [lists EXCEPT ![l] = Live(r.list)], it,
                 Did("push_front", l, 0, v, FALSE, 0))
    /\ model' = [model EXCEPT ![l] = <<v>> \o @]
    /\ net' = [net EXCEPT ![l] = @ + 1]
    /\ UNCHANGED fault

\* l.erase(pos);  pos is a valid iterator of l.  When l is empty the code
\* returns before it looks at pos, so there pos may belong to any list.
Erase(l) ==
    /\ ~fault /\ Usable(l)
    /\ \E o \in Lists :
        /\ Usable(o) /\ (o = l \/ empty(Obj(l)))
        /\ \E pos \in IteratorsOf(o) :
            \E r \in {erase(heap, Obj(l), pos)} :
               /\ Commit(r.heap, [lists EXCEPT ![l] = Live(r.list)], Keep(it, r.freed),
                         Did("erase", l, pos.current_, 0, r.threw,
                             IF r.threw THEN 0 ELSE r.ret.current_))
               /\ model' = IF r.threw THEN model
                           ELSE [model EXCEPT ![l] =
                                   RemoveAt(@, PosIndex(heap, Obj(l), pos.current_))]
               /\ net' = IF r.threw THEN net ELSE [net EXCEPT ![l] = @ - 1]
    /\ UNCHANGED fault

\* l.pop_front();
PopFront(l) ==
    /\ ~fault /\ Usable(l)
    /\ \E r \in {pop_front(heap, Obj(l))} :
          /\ Commit(r.heap, [lists EXCEPT ![l] = Live(r.list)], Keep(it, r.freed),
                    Did("pop_front", l, 0, 0, r.threw, 0))
          /\ model' = IF r.threw THEN model ELSE [model EXCEPT ![l] = Tail(@)]
          /\ net' = IF r.threw THEN net ELSE [net EXCEPT ![l] = @ - 1]
    /\ UNCHANGED fault

\* l.pop_back();
PopBack(l) ==
    /\ ~fault /\ Usable(l)
    /\ \E r \in {pop_back(heap, Obj(l))} :
          /\ Commit(r.heap, [lists EXCEPT ![l] = Live(r.list)], Keep(it, r.freed),
                    Did("pop_back", l, 0, 0, r.threw, 0))
          /\ model' = IF r.threw THEN model
                      ELSE [model EXCEPT ![l] = SubSeq(@, 1, Len(@) - 1)]
          /\ net' = IF r.threw THEN net ELSE [net EXCEPT ![l] = @ - 1]
    /\ UNCHANGED fault

\* l.clear();
Clear(l) ==
    /\ ~fault /\ Usable(l)
    /\ \E r \in {clear(heap, Obj(l))} :
          Commit(r.heap, [lists EXCEPT ![l] = Live(r.list)], Keep(it, r.freed),
                 Did("clear", l, Cardinality(r.freed), 0, r.threw, 0))
    /\ model' = [model EXCEPT ![l] = << >>]
    /\ net' = [net EXCEPT ![l] = @ - Len(model[l])]
    /\ UNCHANGED fault

\* ------------------------------------------------------- iterator steps
\* it = l.begin();
ItBegin(l) ==
    /\ ~fault /\ Usable(l)
    /\ it' = begin(heap, Obj(l))
    /\ last' = Did("begin", l, 0, 0, FALSE, it'.current_)
    /\ UNCHANGED <<heap, lists, fault, model, net>>

\* it = l.cbegin();
ItCBegin(l) ==
    /\ ~fault /\ Usable(l)
    /\ it' = cbegin(heap, Obj(l))
    /\ last' = Did("cbegin", l, 0, 0, FALSE, it'.current_)
    /\ UNCHANGED <<heap, lists, fault, model, net>>

\* it = l.end();
ItEnd(l) ==
    /\ ~fault /\ Usable(l)
    /\ it' = end(Obj(l))
    /\ last' = Did("end", l, 0, 0, FALSE, it'.current_)
    /\ UNCHANGED <<heap, lists, fault, model, net>>

\* it = l.cend();
ItCEnd(l) ==
    /\ ~fault /\ Usable(l)
    /\ it' = cend(Obj(l))
    /\ last' = Did("cend", l, 0, 0, FALSE, it'.current_)
    /\ UNCHANGED <<heap, lists, fault, model, net>>

\* the list a valid iterator belongs to
OwnerOf(i) == CHOOSE l \in Lists : lists[l].temp_node_ = i.temp_node_

\* ++ or -- of the iterator variable: r is what the operator of its class
\* yields
Stepping(op, r) ==
    /\ it' = r.it
    /\ last' = Did(op, OwnerOf(it), it.current_, 0, r.threw, r.ret.current_)
    /\ UNCHANGED <<heap, lists, fault, model, net>>

IsConst == it.kind = "const_iterator"

IsReverse == it.kind = "reverse_iterator"

\* the reverse iterator the variable holds, and the variable holding one:
\* current_ and temp_node_ are those of its base
Adapter(i) == reverse_iterator(iterator(i.current_, i.temp_node_))

Held(r) == [kind |-> "reverse_iterator", current_ |-> r.base.current_,
            temp_node_ |-> r.base.temp_node_, valid |-> TRUE]

\* it = l.rbegin();
ItRBegin(l) ==
    /\ ~fault /\ Usable(l)
    /\ it' = Held(rbegin(Obj(l)))
    /\ last' = Did("rbegin", l, 0, 0, FALSE, it'.current_)
    /\ UNCHANGED <<heap, lists, fault, model, net>>

\* it = l.rend();
ItREnd(l) ==
    /\ ~fault /\ Usable(l)
    /\ it' = Held(rend(heap, Obj(l)))
    /\ last' = Did("rend", l, 0, 0, FALSE, it'.current_)
    /\ UNCHANGED <<heap, lists, fault, model, net>>

\* *it  of a reverse iterator
RDeref ==
    /\ ~fault /\ it.valid /\ IsReverse
    /\ LET r == reverse_deref(heap, Adapter(it))
       IN last' = Did("rderef", OwnerOf(it), it.current_, r.ret, r.threw, 0)
    /\ UNCHANGED <<heap, lists, it, fault, model, net>>

\* it.operator->()  of a reverse iterator
RArrow ==
    /\ ~fault /\ it.valid /\ IsReverse
    /\ LET r == reverse_arrow(heap, Adapter(it))
       IN last' = Did("rarrow", OwnerOf(it), it.current_, 0, r.threw, r.ret)
    /\ UNCHANGED <<heap, lists, it, fault, model, net>>

\* ++it  of a reverse iterator
RPreInc ==
    /\ ~fault /\ it.valid /\ IsReverse
    /\ it' = Held(reverse_preinc(heap, Adapter(it)))
    /\ last' = Did("rpreinc", OwnerOf(it), it.current_, 0, FALSE, it'.current_)
    /\ UNCHANGED <<heap, lists, fault, model, net>>

\* --it  of a reverse iterator
RPreDec ==
    /\ ~fault /\ it.valid /\ IsReverse
    /\ \E r \in {reverse_predec(heap, Adapter(it))} :
         /\ it' = Held(r.it)
         /\ last' = Did("rpredec", OwnerOf(it), it.current_, 0, r.threw, it'.current_)
    /\ UNCHANGED <<heap, lists, fault, model, net>>

\* *it
Deref ==
    /\ ~fault /\ it.valid /\ ~IsReverse
    /\ LET r == IF IsConst THEN const_iterator_deref(heap, it)
                ELSE iterator_deref(heap, it)
       IN last' = Did("deref", OwnerOf(it), it.current_, r.ret, r.threw, 0)
    /\ UNCHANGED <<heap, lists, it, fault, model, net>>

\* it.operator->()
Arrow ==
    /\ ~fault /\ it.valid /\ ~IsReverse
    /\ LET r == IF IsConst THEN const_iterator_arrow(heap, it)
                ELSE iterator_arrow(heap, it)
       IN last' = Did("arrow", OwnerOf(it), it.current_, 0, r.threw, r.ret)
    /\ UNCHANGED <<heap, lists, it, fault, model, net>>

\* ++it
PreInc ==
    /\ ~fault /\ it.valid /\ ~IsReverse
    /\ Stepping("preinc", IF IsConst THEN const_iterator_preinc(heap, it)
                          ELSE iterator_preinc(heap, it))

\* it++
PostInc ==
    /\ ~fault /\ it.valid /\ ~IsReverse
    /\ Stepping("postinc", IF IsConst THEN const_iterator_postinc(heap, it)
                           ELSE iterator_postinc(heap, it))

\* --it
PreDec ==
    /\ ~fault /\ it.valid /\ ~IsReverse
    /\ Stepping("predec", IF IsConst THEN const_iterator_predec(heap, it)
                          ELSE iterator_predec(heap, it))

\* it--
PostDec ==
    /\ ~fault /\ it.valid /\ ~IsReverse
    /\ Stepping("postdec", IF IsConst THEN const_iterator_postdec(heap, it)
                           ELSE iterator_postdec(heap, it))

\* ------------------------------------------------------- element access
\* the common shape of the four accessors: r is what the accessor yields
Reading(op, l, r) ==
    /\ last' = Did(op, l, 0, r.ret, r.threw, 0)
    /\ UNCHANGED <<heap, lists, it, fault, model, net>>

\* l.front();
Front(l) ==
    /\ ~fault /\ Usable(l)
    /\ Reading("front", l, front(heap, Obj(l)))

\* std::as_const(l).front();
FrontConst(l) ==
    /\ ~fault /\ Usable(l)
    /\ Reading("front_const", l, front_const(heap, Obj(l)))

\* l.back();
Back(l) ==
    /\ ~fault /\ Usable(l)
    /\ Reading("back", l, back(heap, Obj(l)))

\* std::as_const(l).back();
BackConst(l) ==
    /\ ~fault /\ Usable(l)
    /\ Reading("back_const", l, back_const(heap, Obj(l)))

\* the accessors of a list
AccessStep(l) ==
    \/ Front(l)
    \/ FrontConst(l)
    \/ Back(l)
    \/ BackConst(l)

\* the operations of the list objects (construction, assignment, mutation)
ListStep(l) ==
    \/ Construct(l)
    \/ ConstructInit(l)
    \/ Destroy(l)
    \/ \E v \in Values : Emplace(l, v)
    \/ \E v \in Values : InsertCopy(l, v)
    \/ \E v \in Values : InsertMove(l, v)
    \/ \E v \in Values : PushBack(l, v)
    \/ \E v \in Values : PushFront(l, v)
    \/ Erase(l)
    \/ PopFront(l)
    \/ PopBack(l)
    \/ Clear(l)

\* the operations that involve two list objects (or one, assigned to itself)
PairStep(l, o) ==
    \/ CopyConstruct(l, o)
    \/ MoveConstruct(l, o)
    \/ CopyAssign(l, o)
    \/ MoveAssign(l, o)

\* the operations of the iterator variable
IterStep(l) ==
    \/ ItBegin(l)
    \/ ItCBegin(l)
    \/ ItEnd(l)
    \/ ItCEnd(l)
    \/ Deref
    \/ Arrow
    \/ PreInc
    \/ PostInc
    \/ PreDec
    \/ PostDec
    \/ ItRBegin(l)
    \/ ItREnd(l)
    \/ RDeref
    \/ RArrow
    \/ RPreInc
    \/ RPreDec

\* a program that works with two lists
Next ==
    \/ \E l \in Lists : ListStep(l)
    \/ \E l, o \in Lists : PairStep(l, o)

Spec == Init /\ [][Next]_vars

\* a program that works with one list and an iterator into it: the list is
\* built, changed at any position, read at its ends and destroyed while the
\* iterator is held
NextIter ==
    \/ Construct("a")
    \/ ConstructInit("a")
    \/ Destroy("a")
    \/ \E v \in Values : Emplace("a", v)
    \/ \E v \in Values : InsertCopy("a", v)
    \/ \E v \in Values : InsertMove("a", v)
    \/ Erase("a")
    \/ PopFront("a")
    \/ PopBack("a")
    \/ Clear("a")
    \/ AccessStep("a")
    \/ IterStep("a")

SpecIter == Init /\ [][NextIter]_vars

\* ------------------------------------------------------------ properties
\* every node reached from the nodes in S by following next, NULL included
\* when a next link is null
RECURSIVE ReachNext(_, _, _)
ReachNext(h, S, fuel) ==
    IF fuel = 0 THEN S
    ELSE ReachNext(h, S \cup {h[n].next : n \in S \ {NULL}}, fuel - 1)

Reachable(h, s) == ReachNext(h, {s}, MaxNodes)

Sentinels == {lists[l].temp_node_ : l \in Lists} \ {NULL}

Reverse(s) == [k \in 1..Len(s) |-> s[Len(s) + 1 - k]]

\* C1: for every list that has not been moved from, the nodes reachable from
\* its sentinel form one circular doubly-linked ring that holds exactly one
\* sentinel (its own), and every node n of it has n.next.prev = n and
\* n.prev.next = n.
C1_RingWellFormed ==
    \A l \in Lists : Usable(l) =>
        LET s == lists[l].temp_node_
            R == Reachable(heap, s)
        IN /\ NULL \notin R
           /\ \A n \in R :
                /\ heap[n].alloc
                /\ heap[n].next # NULL /\ heap[n].prev # NULL
                /\ heap[heap[n].next].prev = n
                /\ heap[heap[n].prev].next = n
           /\ R \cap Sentinels = {s}
           /\ Len(Ring(heap, Obj(l))) + 1 = Cardinality(R)

\* C1 witness: an erase has just unlinked a node and two elements remain
C1_Witness ==
    /\ last.op = "erase" /\ ~last.threw
    /\ Usable(last.l) /\ Len(Ring(heap, Obj(last.l))) = 2
    /\ Cardinality(Reachable(heap, lists[last.l].temp_node_)) = 3

\* C2: for every list in use, size() equals the number of successful
\* additions minus the number of successful removals, equals the number of
\* non-sentinel nodes in its ring, and has not wrapped below zero.
C2_SizeIsNetCount ==
    \A l \in Lists : Usable(l) =>
        /\ size(Obj(l)) = net[l]
        /\ size(Obj(l)) = Cardinality(Reachable(heap, lists[l].temp_node_) \ {lists[l].temp_node_})
        /\ net[l] >= 0
        /\ size(Obj(l)) <= MaxNodes

\* C2 witness: an erase on an empty list threw and the size is still 0
C2_Witness ==
    /\ last.op \in {"erase", "pop_front", "pop_back"} /\ last.threw
    /\ Usable(last.l) /\ size(Obj(last.l)) = 0 /\ net[last.l] = 0

\* C3: for every list in use, the loop from begin() with ++ until end()
\* terminates after exactly size() increments and dereferences exactly the
\* elements of the list's sequence, first to last.
C3_ForwardOrder ==
    \A l \in Lists : Usable(l) =>
        LET f == ForwardIteration(heap, Obj(l))
        IN /\ f.done
           /\ f.values = model[l]
           /\ Len(f.values) = size(Obj(l))

\* C3 witness: an append has made a list of two different elements
C3_Witness ==
    /\ last.op = "push_back" /\ Usable(last.l)
    /\ Len(model[last.l]) = 2 /\ model[last.l][1] # model[last.l][2]
    /\ ForwardIteration(heap, Obj(last.l)).values = model[last.l]

\* C4: for every list in use, the loop of a reverse iterator from rbegin()
\* with ++ until rend() terminates and yields the elements of the list's
\* sequence last to first, each once (also for the empty and the one-element
\* list).
C4_ReverseOrder ==
    \A l \in Lists : Usable(l) =>
        LET r == ReverseIteration(heap, Obj(l))
        IN /\ r.done
           /\ r.values = Reverse(model[l])

\* C4 witness: a list of three elements whose ends differ was traversed
C4_Witness ==
    \E l \in Lists :
        /\ Usable(l) /\ Len(model[l]) = 3 /\ model[l][1] # model[l][3]
        /\ ReverseIteration(heap, Obj(l)).values = Reverse(model[l])

\* the values a traversal of list l reads, in the state at hand
Contents(l) == ForwardIteration(heap, Obj(l)).values

\* C5: a call of emplace or of either insert overload with a valid position
\* of the list (begin() and end() included) does not throw, puts exactly one
\* new element immediately before the element at the position (last when the
\* position is end(), first when it is begin()), keeps the other elements in
\* their order, increases size() by exactly 1, and returns an iterator that
\* dereferences to the new element.
C5_InsertEffect ==
    [][\A l \in Lists :
        (last'.op \in {"emplace", "insert_copy", "insert_move"} /\ last'.l = l) =>
         \A k \in {PosIndex(heap, Obj(l), last'.arg)} :
         \A before \in {Contents(l)} :
         \A after \in {ForwardIteration(heap', Obj(l)')} :
            /\ ~last'.threw /\ ~fault'
            /\ after.done
            /\ after.values = InsertAt(before, k, last'.val)
            /\ (last'.arg = end(Obj(l)).current_
                   => after.values = Append(before, last'.val))
            /\ (last'.arg = begin(heap, Obj(l)).current_
                   => after.values = <<last'.val>> \o before)
            /\ size(Obj(l))' = size(Obj(l)) + 1
            /\ PosIndex(heap', Obj(l)', last'.ret) = k
            /\ iterator_deref(heap', iterator(last'.ret, lists'[l].temp_node_))
                   = [threw |-> FALSE, ret |-> last'.val]
            /\ \A o \in Lists \ {l} :
                   /\ lists'[o].st = lists[o].st
                   /\ Usable(o) => ForwardIteration(heap', Obj(o)').values = Contents(o)
    ]_vars

\* C5 witness: insert(pos, std::move(v)) has put a new element between two
\* elements that differ from it
C5_Witness ==
    /\ last.op = "insert_move" /\ Usable(last.l)
    /\ Len(Contents(last.l)) = 3
    /\ PosIndex(heap, Obj(last.l), last.ret) = 2
    /\ Contents(last.l)[2] = last.val
    /\ Contents(last.l)[1] # last.val /\ Contents(last.l)[3] = Contents(last.l)[1]

\* C6: erase(pos) on a non-empty list with pos at an element does not throw,
\* removes exactly that element, keeps the other elements in their order,
\* decreases size() by exactly 1, and returns an iterator to the element that
\* followed the erased one, which is end() when the erased one was the last.
C6_EraseEffect ==
    [][\A l \in Lists :
        (last'.op = "erase" /\ last'.l = l /\ ~empty(Obj(l))
                            /\ last'.arg # lists[l].temp_node_) =>
         \A k \in {PosIndex(heap, Obj(l), last'.arg)} :
         \A before \in {Contents(l)} :
         \A after \in {ForwardIteration(heap', Obj(l)')} :
         \A ret \in {iterator(last'.ret, lists'[l].temp_node_)} :
            /\ ~last'.threw
            /\ k <= Len(before)
            /\ after.done
            /\ after.values = RemoveAt(before, k)
            /\ size(Obj(l))' = size(Obj(l)) - 1
            /\ PosIndex(heap', Obj(l)', last'.ret) = k
            /\ IF k = Len(before)
               THEN iterator_eq(ret, end(Obj(l))')
               ELSE iterator_deref(heap', ret) = [threw |-> FALSE, ret |-> before[k + 1]]
    ]_vars

\* C6 witness: the last of several elements was erased and end() was returned
C6_Witness ==
    /\ last.op = "erase" /\ ~last.threw /\ Usable(last.l)
    /\ last.ret = lists[last.l].temp_node_
    /\ Len(model[last.l]) >= 2
    /\ Contents(last.l) = model[last.l]

\* C7: erase(pos) throws std::out_of_range whenever the list is empty (for
\* any pos) and whenever pos is end() of a non-empty list, and then the nodes,
\* their links, the element sequence and size() are as before the call.
C7_EraseThrows ==
    [][\A l \in Lists :
        (last'.op = "erase" /\ last'.l = l
            /\ (empty(Obj(l)) \/ last'.arg = lists[l].temp_node_)) =>
         /\ last'.threw
         /\ heap' = heap
         /\ lists' = lists
         /\ ForwardIteration(heap', Obj(l)').values = Contents(l)
         /\ size(Obj(l))' = size(Obj(l))
    ]_vars

\* C7 witness: erase(end()) on a list of two elements threw
C7_Witness ==
    /\ last.op = "erase" /\ last.threw /\ Usable(last.l)
    /\ last.arg = lists[last.l].temp_node_
    /\ size(Obj(last.l)) = 2 /\ Len(Contents(last.l)) = 2

\* C8: destroying a moved-from list, copy-assigning a populated list to it
\* and move-assigning a list to it never dereference a null sentinel, and
\* after either assignment the object is a list in use (it has a sentinel)
\* whose traversal yields the assigned element sequence.
C8_MovedFromReassigned ==
    /\ ~fault
    /\ (last.op \in {"copy_assign", "move_assign"} /\ last.arg = 1
                                                   /\ model[last.l] # << >>) =>
          /\ Usable(last.l)
          /\ ForwardIteration(heap, Obj(last.l)).done
          /\ Contents(last.l) = model[last.l]
          /\ size(Obj(last.l)) = Len(model[last.l])

\* the iterator operations that check for the sentinel
Checked == {"deref", "arrow", "preinc", "postinc"}

\* C9: for iterator and const_iterator, operator*, operator->, ++it and it++
\* throw std::out_of_range exactly when the iterator is at the sentinel of
\* its list (empty or not); otherwise operator* yields the current element,
\* operator-> its address, and the increments move the iterator to the next
\* node (++it returning the new position, it++ the old one).
C9_ThrowsExactlyAtEnd ==
    [][last'.op \in Checked =>
         LET l == last'.l
             k == PosIndex(heap, Obj(l), last'.arg)
         IN /\ it.valid /\ last'.arg = it.current_
            /\ last'.threw <=> (it.current_ = lists[l].temp_node_)
            /\ (~last'.threw /\ last'.op = "deref") =>
                   (k <= Len(model[l]) /\ last'.val = model[l][k])
            /\ (~last'.threw /\ last'.op = "arrow") => last'.ret = it.current_
            /\ (~last'.threw /\ last'.op \in {"preinc", "postinc"}) =>
                   /\ it'.current_ = heap[it.current_].next
                   /\ PosIndex(heap, Obj(l), it'.current_) = k + 1
                   /\ it'.kind = it.kind /\ it'.temp_node_ = it.temp_node_
                   /\ last'.ret = IF last'.op = "preinc" THEN it'.current_
                                  ELSE it.current_
    ]_vars

\* C9 witness: it++ on a const_iterator at end() of a non-empty list threw
C9_Witness ==
    /\ last.op = "postinc" /\ last.threw
    /\ it.valid /\ it.kind = "const_iterator"
    /\ it.current_ = lists[last.l].temp_node_
    /\ Len(model[last.l]) >= 1

\* C10: --it and it-- never throw, at any position of any list; at end() of
\* an empty list the iterator stays at end(); from begin() of a non-empty
\* list and from end() of a non-empty list it moves to the last element.
C10_DecrementNeverThrows ==
    [][last'.op \in {"predec", "postdec"} =>
         LET l == last'.l
             s == lists[l].temp_node_
         IN /\ it.valid /\ last'.arg = it.current_
            /\ ~last'.threw
            /\ empty(Obj(l)) => it'.current_ = s
            /\ (~empty(Obj(l)) /\ it.current_ \in {s, begin(heap, Obj(l)).current_}) =>
                   /\ PosIndex(heap, Obj(l), it'.current_) = Len(model[l])
                   /\ iterator_deref(heap, iterator(it'.current_, s))
                          = [threw |-> FALSE, ret |-> model[l][Len(model[l])]]
            /\ last'.ret = IF last'.op = "predec" THEN it'.current_
                           ELSE it.current_
    ]_vars

\* C10 witness: --it at begin() of a list of three elements went to the last
C10_Witness ==
    /\ last.op = "predec" /\ ~last.threw /\ it.valid
    /\ Len(model[last.l]) = 3
    /\ last.arg = begin(heap, Obj(last.l)).current_
    /\ PosIndex(heap, Obj(last.l), it.current_) = 3

\* C11: front() and back(), const or not, throw std::out_of_range exactly
\* when size() = 0; on a non-empty list front() returns the first element of
\* the sequence (the value of the sentinel's successor) and back() the last
\* (the value of the sentinel's predecessor); neither changes the list.
C11_FrontBack ==
    [][\A l \in Lists :
        (last'.op \in {"front", "front_const", "back", "back_const"} /\ last'.l = l) =>
         \A s \in {lists[l].temp_node_} :
            /\ last'.threw <=> (size(Obj(l)) = 0)
            /\ (~last'.threw /\ last'.op \in {"front", "front_const"}) =>
                   /\ last'.val = model[l][1]
                   /\ last'.val = heap[heap[s].next].value
            /\ (~last'.threw /\ last'.op \in {"back", "back_const"}) =>
                   /\ last'.val = model[l][Len(model[l])]
                   /\ last'.val = heap[heap[s].prev].value
            /\ heap' = heap /\ lists' = lists /\ it' = it
    ]_vars

\* C11 witness: back() has returned the last of three elements, which differs
\* from the first
C11_Witness ==
    /\ last.op = "back" /\ ~last.threw /\ Usable(last.l)
    /\ Len(model[last.l]) = 3
    /\ last.val = model[last.l][3] /\ model[last.l][1] # model[last.l][3]

\* C12: on a non-empty list pop_front() removes exactly the first element and
\* pop_back() exactly the last (the one --end() is at), the other elements
\* keep their order and size() goes down by 1; on an empty list both throw
\* std::out_of_range and the list stays empty with its sentinel linked to
\* itself.
C12_PopEnds ==
    [][\A l \in Lists :
        (last'.op \in {"pop_front", "pop_back"} /\ last'.l = l) =>
         \A s \in {lists[l].temp_node_} :
         \A before \in {Contents(l)} :
         \A after \in {ForwardIteration(heap', Obj(l)')} :
            IF size(Obj(l)) = 0
            THEN /\ last'.threw
                 /\ after.done /\ after.values = << >>
                 /\ size(Obj(l)') = 0 /\ empty(Obj(l)')
                 /\ heap' = heap /\ lists' = lists
                 /\ heap'[s].next = s /\ heap'[s].prev = s
            ELSE /\ ~last'.threw
                 /\ after.done
                 /\ size(Obj(l)') = size(Obj(l)) - 1
                 /\ last'.op = "pop_front" => after.values = Tail(before)
                 /\ last'.op = "pop_back" =>
                       /\ after.values = SubSeq(before, 1, Len(before) - 1)
                       /\ iterator_deref(heap, iterator_predec(heap, end(Obj(l))).it)
                              = [threw |-> FALSE, ret |-> before[Len(before)]]
                 /\ \A o \in Lists \ {l} :
                       Usable(o) => ForwardIteration(heap', Obj(o)').values = Contents(o)
    ]_vars

\* C12 witness: pop_back() has left the first two of three elements
C12_Witness ==
    /\ last.op = "pop_back" /\ ~last.threw /\ Usable(last.l)
    /\ size(Obj(last.l)) = 2
    /\ Contents(last.l) = model[last.l]
    /\ model[last.l][1] # model[last.l][2]

\* the list object that is not l
Other(l) == CHOOSE o \in Lists : o # l

\* the nodes of list l in heap h with list objects ls: its sentinel and ring
NodesOf(h, ls, l) == Reachable(h, ls[l].temp_node_)

\* the operations on one list object that involve no other list
OwnOps == {"construct", "construct_init", "destroy", "emplace", "insert_copy",
           "insert_move", "push_back", "push_front", "erase", "pop_front",
           "pop_back", "clear"}

\* C13: copy construction yields a list with the source's element sequence
\* and size whose sentinel and nodes are disjoint from the source's, and
\* leaves the source as it was; afterwards (as for any two lists) an
\* operation on one list leaves the other's sequence, size and ring, read
\* in both directions, unchanged and the two sets of nodes disjoint.
C13_CopyIndependent ==
    [][\A l \in Lists : \A o \in {Other(l)} :
        /\ (last'.op = "copy_construct" /\ last'.l = l) =>
             \A src \in {ForwardIteration(heap, Obj(o))} :
             \A cpy \in {ForwardIteration(heap', Obj(l)')} :
                /\ src.done /\ cpy.done
                /\ cpy.values = src.values
                /\ size(Obj(l)') = size(Obj(o))
                /\ lists'[l].temp_node_ # lists'[o].temp_node_
                /\ NodesOf(heap', lists', l) \cap NodesOf(heap', lists', o) = {}
                /\ ForwardIteration(heap', Obj(o)').values = src.values
                /\ size(Obj(o)') = size(Obj(o))
        /\ (last'.op \in OwnOps /\ last'.l = l /\ Usable(o)) =>
                /\ lists'[o].st = "live" /\ lists'[o].temp_node_ # NULL
                /\ ForwardIteration(heap', Obj(o)') = ForwardIteration(heap, Obj(o))
                /\ ReverseIteration(heap', Obj(o)') = ReverseIteration(heap, Obj(o))
                /\ size(Obj(o)') = size(Obj(o))
                /\ Cardinality(NodesOf(heap', lists', o)) = Cardinality(NodesOf(heap, lists, o))
                /\ lists'[l].temp_node_ # NULL =>
                      NodesOf(heap', lists', l) \cap NodesOf(heap', lists', o) = {}
    ]_vars

\* C13 witness: a list of two different elements has just been copied
C13_Witness ==
    /\ last.op = "copy_construct" /\ Usable(last.l) /\ Usable(Other(last.l))
    /\ Len(Contents(last.l)) = 2
    /\ Contents(last.l)[1] # Contents(last.l)[2]
    /\ Contents(last.l) = Contents(Other(last.l))
    /\ NodesOf(heap, lists, last.l) \cap NodesOf(heap, lists, Other(last.l)) = {}

\* the number of nodes allocated in heap h
Allocated(h) == Cardinality({n \in Nodes : h[n].alloc})

\* C14: move construction gives the new list exactly the source's element
\* sequence and size; it takes over the source's sentinel and nodes (the new
\* object points at the source's sentinel, no node is allocated, released or
\* written), and the source is left empty: size() = 0 and empty() holds.
C14_MoveConstruct ==
    [][\A l \in Lists : \A o \in {Other(l)} :
        (last'.op = "move_construct" /\ last'.l = l) =>
           \A src \in {ForwardIteration(heap, Obj(o))} :
           \A got \in {ForwardIteration(heap', Obj(l)')} :
           \A m \in {CircularList_move(heap, Obj(o))} :
              /\ src.done /\ got.done
              /\ got.values = src.values
              /\ size(Obj(l)') = size(Obj(o))
              /\ m.list.temp_node_ = lists[o].temp_node_
              /\ m.heap = heap
              /\ Allocated(heap') = Allocated(heap)
              /\ Cardinality(NodesOf(heap', lists', l)) = Cardinality(NodesOf(heap, lists, o))
              /\ ReverseIteration(heap', Obj(l)') = ReverseIteration(heap, Obj(o))
              /\ lists'[o].st = "live"
              /\ size(Obj(o)') = 0 /\ empty(Obj(o)')
    ]_vars

\* C14 witness: a list of two different elements has just been moved into a
\* new list
C14_Witness ==
    /\ last.op = "move_construct" /\ Usable(last.l) /\ MovedFrom(Other(last.l))
    /\ Contents(last.l) = model[last.l]
    /\ Len(Contents(last.l)) = 2 /\ Contents(last.l)[1] # Contents(last.l)[2]
    /\ size(Obj(Other(last.l))) = 0

\* the operations that can throw std::out_of_range
Throwing == {"front", "front_const", "back", "back_const", "erase", "pop_front",
             "pop_back", "deref", "arrow", "preinc", "postinc", "rderef", "rarrow",
             "rpredec"}

\* C15: a call that throws std::out_of_range (front, back, erase, pop_front,
\* pop_back, and *, ->, ++ of an iterator at end()) has changed nothing: the
\* nodes with their links and values, the list objects with their size, the
\* element sequence and the iterator are as before the call.
C15_ThrowChangesNothing ==
    [][last'.threw =>
         /\ last'.op \in Throwing
         /\ heap' = heap
         /\ lists' = lists
         /\ it' = it
         /\ \A l \in Lists : Usable(l) =>
               /\ ForwardIteration(heap', Obj(l)') = ForwardIteration(heap, Obj(l))
               /\ ReverseIteration(heap', Obj(l)') = ReverseIteration(heap, Obj(l))
               /\ size(Obj(l)') = size(Obj(l))
    ]_vars

\* C15 witness: ++it at end() of a non-empty list threw and the iterator is
\* still at end()
C15_Witness ==
    /\ last.op = "preinc" /\ last.threw /\ it.valid
    /\ it.current_ = lists[last.l].temp_node_
    /\ last.arg = it.current_
    /\ size(Obj(last.l)) >= 2

\* the sentinel of list l is linked to itself in both directions
SelfLinked(l) ==
    /\ heap[lists[l].temp_node_].next = lists[l].temp_node_
    /\ heap[lists[l].temp_node_].prev = lists[l].temp_node_

\* the four ways of saying that list l, which has a sentinel, is empty agree
EmptyAgrees(l) ==
    /\ empty(Obj(l)) <=> (size(Obj(l)) = 0)
    /\ (size(Obj(l)) = 0) <=> iterator_eq(begin(heap, Obj(l)), end(Obj(l)))
    /\ (size(Obj(l)) = 0) <=> const_iterator_eq(cbegin(heap, Obj(l)), cend(Obj(l)))
    /\ (size(Obj(l)) = 0) <=> SelfLinked(l)

\* the four ways of saying "empty" agree for every list that has a sentinel
EmptyAgreesInUse == \A l \in Lists : Usable(l) => EmptyAgrees(l)

\* C16: every list object, in every reachable state, has a sentinel that
\* begin() and end() can be taken from, and for it empty() holds iff
\* size() = 0 iff begin() = end() iff the sentinel's next and prev are the
\* sentinel itself.
C16_EmptyEquivalences ==
    \A l \in Lists : lists[l].st = "live" =>
        /\ lists[l].temp_node_ # NULL
        /\ EmptyAgrees(l)

\* C17: clear() on a list of any size returns without throwing, releases
\* every element node and nothing else, and leaves size() = 0 with the
\* sentinel linked to itself; on an empty list it changes nothing, so a
\* second clear() right after the first leaves the state the first left.
C17_Clear ==
    [][\A l \in Lists :
        (last'.op = "clear" /\ last'.l = l) =>
         \A n \in {Len(Ring(heap, Obj(l)))} :
         \A once \in {clear(heap, Obj(l))} :
         \A twice \in {clear(once.heap, once.list)} :
            /\ ~last'.threw /\ ~once.threw /\ ~twice.threw
            /\ last'.arg = n
            /\ Allocated(heap') = Allocated(heap) - n
            /\ Cardinality(NodesOf(heap', lists', l)) = 1
            /\ size(Obj(l)') = 0 /\ empty(Obj(l)')
            /\ SelfLinked(l)'
            /\ ForwardIteration(heap', Obj(l)') = [values |-> << >>, done |-> TRUE]
            /\ (size(Obj(l)) = 0) => (heap' = heap /\ lists' = lists)
            /\ twice.heap = once.heap /\ twice.list = once.list /\ twice.freed = {}
            /\ \A o \in Lists \ {l} :
                  /\ lists'[o].st = lists[o].st
                  /\ Usable(o) => ForwardIteration(heap', Obj(o)') = ForwardIteration(heap, Obj(o))
    ]_vars

\* C17 witness: clear() has released the three elements of a list
C17_Witness ==
    /\ last.op = "clear" /\ ~last.threw /\ last.arg = 3
    /\ Usable(last.l) /\ size(Obj(last.l)) = 0 /\ SelfLinked(last.l)

\* the set of the element nodes of list l
Elements(l) == {Ring(heap, Obj(l))[k] : k \in 1..Len(Ring(heap, Obj(l)))}

\* what l = o is to do for two distinct list objects: no null pointer is
\* dereferenced, l's previous element nodes are released, l keeps its
\* sentinel and holds o's element sequence and size in nodes of its own, and
\* o is as it was
CopyAssignEffect(l, o) ==
    /\ ~fault'
    /\ lists[l].temp_node_ # NULL
    /\ lists'[l].temp_node_ # NULL
    /\ \A r \in {copy_assign(heap, Obj(l), Obj(o))} :
       \A src \in {ForwardIteration(heap, Obj(o))} :
       \A got \in {ForwardIteration(heap', Obj(l)')} :
          /\ ~r.fault
          /\ r.list.temp_node_ = lists[l].temp_node_
          /\ r.freed = Elements(l)
          /\ Allocated(heap') = Allocated(heap) - Len(Ring(heap, Obj(l))) + Len(src.values)
          /\ got.done /\ got.values = src.values
          /\ ReverseIteration(heap', Obj(l)').values = Reverse(src.values)
          /\ size(Obj(l)') = size(Obj(o))
          /\ NodesOf(heap', lists', l) \cap NodesOf(heap', lists', o) = {}
          /\ Cardinality(NodesOf(heap', lists', l)) = Len(src.values) + 1
          /\ ForwardIteration(heap', Obj(o)') = src
          /\ size(Obj(o)') = size(Obj(o))

\* the copy assignments whose target has a sentinel do what they are to do
CopyAssignInUse ==
    [][\A l, o \in Lists :
        (last'.op = "copy_assign" /\ last'.l = l /\ last'.src = o /\ Usable(l)) =>
            IF o = l
            THEN heap' = heap /\ lists' = lists
            ELSE CopyAssignEffect(l, o)
    ]_vars

\* C18: a = b for two distinct list objects releases all of a's previous
\* elements and leaves a, on its own sentinel, with exactly b's element
\* sequence and size in freshly allocated nodes, and b unchanged; a = a
\* leaves a's sequence, size and nodes unchanged.
C18_CopyAssign ==
    [][\A l, o \in Lists :
        (last'.op = "copy_assign" /\ last'.l = l /\ last'.src = o) =>
            IF o = l
            THEN heap' = heap /\ lists' = lists
            ELSE CopyAssignEffect(l, o)
    ]_vars

\* the nodes list l owns: its sentinel and its element nodes (none when it
\* has no sentinel)
Owned(l) ==
    IF lists[l].temp_node_ = NULL THEN {}
    ELSE {lists[l].temp_node_} \cup Elements(l)

\* C19: a = std::move(b) for two distinct list objects releases all of a's
\* previous element nodes and a's previous sentinel, gives a exactly b's
\* sentinel, element sequence and size, and leaves b with no sentinel and
\* size 0; a = std::move(a) leaves a's sequence, size and sentinel unchanged.
C19_MoveAssign ==
    [][\A l, o \in Lists :
        (last'.op = "move_assign" /\ last'.l = l /\ last'.src = o) =>
            IF o = l
            THEN heap' = heap /\ lists' = lists
            ELSE \A r \in {move_assign(heap, Obj(l), Obj(o))} :
                 \A src \in {ForwardIteration(heap, Obj(o))} :
                    /\ ~fault'
                    /\ r.freed = Owned(l)
                    /\ \A n \in Owned(l) : ~r.heap[n].alloc
                    /\ Allocated(heap') = Allocated(heap) - Cardinality(Owned(l))
                    /\ r.list.temp_node_ = lists[o].temp_node_
                    /\ \A n \in Owned(o) : r.heap[n] = heap[n]
                    /\ lists'[l].temp_node_ # NULL
                    /\ ForwardIteration(heap', Obj(l)') = src
                    /\ ReverseIteration(heap', Obj(l)') = ReverseIteration(heap, Obj(o))
                    /\ size(Obj(l)') = size(Obj(o))
                    /\ Cardinality(NodesOf(heap', lists', l)) = Cardinality(Owned(o))
                    /\ lists'[o].st = "live"
                    /\ lists'[o].temp_node_ = NULL /\ size(Obj(o)') = 0
    ]_vars

\* C19 witness: a list of two different elements has been move-assigned to
\* another list that had a sentinel of its own, and only its nodes remain
C19_Witness ==
    /\ last.op = "move_assign" /\ last.src # last.l /\ last.arg = 0
    /\ Usable(last.l) /\ MovedFrom(last.src)
    /\ Contents(last.l) = model[last.l]
    /\ Len(model[last.l]) = 2 /\ model[last.l][1] # model[last.l][2]
    /\ Allocated(heap) = 3

\* every allocated node is owned by exactly one list object, and every node
\* a list object owns is allocated
ExclusiveOwnership ==
    /\ \A l \in Lists : \A n \in Owned(l) : heap[n].alloc
    /\ \A l \in Lists : Owned(l) \cap Owned(Other(l)) = {}
    /\ {n \in Nodes : heap[n].alloc} = UNION {Owned(l) : l \in Lists}
    /\ (\A l \in Lists : lists[l].st = "none") => Allocated(heap) = 0

\* a destruction releases the element nodes and then the sentinel, each of
\* them allocated until then, and nothing else
DestroyReleasesAll ==
    \A l \in Lists :
        (last'.op = "destroy" /\ last'.l = l) =>
           \A c \in {clear(heap, Obj(l))} :
           \A d \in {destructor(heap, Obj(l))} :
              /\ c.freed = Owned(l) \ {lists[l].temp_node_}
              /\ lists[l].temp_node_ # NULL => c.heap[lists[l].temp_node_].alloc
              /\ d.freed = Owned(l)
              /\ \A n \in d.freed : heap[n].alloc /\ ~d.heap[n].alloc
              /\ Allocated(heap') = Allocated(heap) - Cardinality(Owned(l))
              /\ lists'[l].st = "none"

\* ownership is exclusive and destruction complete as long as no null pointer
\* has been dereferenced
OwnershipWithoutFault ==
    [][~fault' => (ExclusiveOwnership' /\ DestroyReleasesAll)]_vars

\* C20: after any sequence of constructions, copies, moves, assignments,
\* mutations and destructions every allocated node, element node or
\* sentinel, is owned by exactly one list object; a destruction releases the
\* list's element nodes and then its sentinel, each once; and when no list
\* object is left no node is allocated.
C20_Ownership ==
    [][ExclusiveOwnership' /\ DestroyReleasesAll]_vars

\* the operations that are never to throw
Unfailing == {"construct", "construct_init", "copy_construct", "move_construct",
              "copy_assign", "move_assign", "destroy", "emplace", "insert_copy",
              "insert_move", "push_back", "push_front", "clear", "begin", "cbegin",
              "end", "cend", "predec", "postdec", "rbegin", "rend", "rpreinc"}

\* the situation in which the call recorded by the step throws: the list is
\* empty (front, back, pop_front, pop_back, erase), or the position given to
\* erase or the iterator operated on is at the sentinel
ThrowSituation(l) ==
    IF last'.op \in {"front", "front_const", "back", "back_const", "pop_front", "pop_back"}
    THEN size(Obj(l)) = 0
    ELSE IF last'.op = "erase"
    THEN size(Obj(l)) = 0 \/ last'.arg = lists[l].temp_node_
    ELSE IF last'.op \in Checked \cup {"rpredec"}
    THEN last'.arg = lists[l].temp_node_
    ELSE IF last'.op \in {"rderef", "rarrow"}
    THEN size(Obj(l)) = 0
    ELSE FALSE

\* std::out_of_range is thrown in exactly the listed situations
ThrowsExactlyWhenListed ==
    \A l \in Lists : last'.l = l =>
        /\ last'.op \in Unfailing \cup Throwing
        /\ last'.op \in Unfailing => ~last'.threw
        /\ last'.threw <=> ThrowSituation(l)
        /\ size(Obj(l)') \in 0..MaxNodes
        /\ empty(Obj(l)') \in BOOLEAN

\* as long as no moved-from list is copy-assigned to, nothing but
\* std::out_of_range is raised
OnlyOutOfRangeInUse ==
    [][(~fault' /\ ThrowsExactlyWhenListed)
          \/ (last'.op = "copy_assign" /\ last'.arg = 1)]_vars

\* C21: no call dereferences a null pointer or fails in any other way than by
\* throwing std::out_of_range, which is thrown in exactly the listed
\* situations; insert, emplace, push_front, push_back, clear, size, empty,
\* the copy and move constructors and the copy and move assignments never
\* throw, in any state in which they may be called.
C21_OnlyOutOfRange ==
    [][~fault' /\ ThrowsExactlyWhenListed]_vars

\* the reads of an element's value or address
Reads == {"front", "front_const", "back", "back_const", "deref", "arrow",
          "rderef", "rarrow"}

\* the node the read recorded in last' looked at, in the list with sentinel s
ReadNode(s) ==
    IF last'.op \in {"front", "front_const"} THEN heap[s].next
    ELSE IF last'.op \in {"back", "back_const"} THEN heap[s].prev
    ELSE IF last'.op \in {"deref", "arrow"} THEN last'.arg
    ELSE iterator_predec(heap, iterator(last'.arg, s)).it.current_

\* C22: no read that returns (front(), back(), * and -> of an iterator, a
\* const_iterator or a reverse iterator, wherever ++ and -- have taken it)
\* looks at the sentinel: the node read is an element of the list, the value
\* returned is that element's and never the sentinel's default value; an
\* iterator is at the sentinel only as end(), and begin() is the sentinel
\* only when the list is empty.
C22_SentinelNeverRead ==
    [][\A l \in Lists : (last'.l = l /\ ~fault') =>
         \A s \in {lists[l].temp_node_} :
            /\ (last'.op \in Reads /\ ~last'.threw) =>
                 \A n \in {ReadNode(s)} :
                    /\ n # s
                    /\ PosIndex(heap, Obj(l), n) \in 1..Len(model[l])
                    /\ last'.op \in {"arrow", "rarrow"} => last'.ret = n
                    /\ last'.op \notin {"arrow", "rarrow"} =>
                          /\ last'.val = model[l][PosIndex(heap, Obj(l), n)]
                          /\ last'.val = heap[n].value
                          /\ last'.val # DefaultT
            /\ last'.op \in {"begin", "cbegin", "rend"} =>
                   (last'.ret = s <=> empty(Obj(l)))
            /\ last'.op \in {"end", "cend", "rbegin"} => last'.ret = s
            /\ (it'.valid /\ it'.temp_node_ = lists'[l].temp_node_
                  /\ it'.current_ = lists'[l].temp_node_) =>
                   IF IsReverse' THEN Adapter(it') = rbegin(Obj(l)')
                   ELSE const_iterator_from(it') = cend(Obj(l)')
    ]_vars

\* C22 witness: *it of the reverse iterator rend() of a list of two or more
\* elements, whose base is begin(), returned the last element
C22_Witness ==
    /\ last.op = "rderef" /\ ~last.threw /\ it.valid /\ it.kind = "reverse_iterator"
    /\ Len(model[last.l]) >= 2
    /\ it.current_ = begin(heap, Obj(last.l)).current_
    /\ last.val = model[last.l][Len(model[last.l])]

\* C23: push_back(v) leaves the list as insert(end(), v) does and
\* push_front(v) as insert(begin(), v) does (the same elements forwards and
\* backwards, the same size); after push_back(v) the sequence is the old one
\* followed by v and back() returns v, after push_front(v) it is v followed
\* by the old one and front() returns v, on an empty list too; the other
\* list is as it was.
C23_PushEnds ==
    [][\A l \in Lists :
        (last'.op \in {"push_back", "push_front"} /\ last'.l = l) =>
         \A v \in {last'.val} :
         \A before \in {Contents(l)} :
         \A after \in {ForwardIteration(heap', Obj(l)')} :
         \A ins \in {IF last'.op = "push_back"
                     THEN insert_copy(heap, Obj(l), cend(Obj(l)), v)
                     ELSE insert_copy(heap, Obj(l), cbegin(heap, Obj(l)), v)} :
            /\ ~last'.threw /\ ~fault' /\ ~ins.threw /\ ~ins.fault
            /\ after.done
            /\ after = ForwardIteration(ins.heap, ins.list)
            /\ ReverseIteration(heap', Obj(l)') = ReverseIteration(ins.heap, ins.list)
            /\ size(Obj(l)') = size(ins.list)
            /\ size(Obj(l)') = size(Obj(l)) + 1
            /\ last'.op = "push_back" =>
                  /\ after.values = Append(before, v)
                  /\ back(heap', Obj(l)') = [threw |-> FALSE, ret |-> v]
            /\ last'.op = "push_front" =>
                  /\ after.values = <<v>> \o before
                  /\ front(heap', Obj(l)') = [threw |-> FALSE, ret |-> v]
            /\ before = << >> =>
                  /\ after.values = <<v>>
                  /\ front(heap', Obj(l)').ret = v /\ back(heap', Obj(l)').ret = v
            /\ \A o \in Lists \ {l} :
                   /\ lists'[o].st = lists[o].st
                   /\ Usable(o) => ForwardIteration(heap', Obj(o)').values = Contents(o)
    ]_vars

\* C23 witness: push_front(v) on a list of two elements that differ from v
\* has put v first
C23_Witness ==
    /\ last.op = "push_front" /\ Usable(last.l)
    /\ Len(Contents(last.l)) = 3
    /\ Contents(last.l)[1] = last.val
    /\ Contents(last.l)[2] # last.val /\ Contents(last.l)[3] # last.val
    /\ front(heap, Obj(last.l)).ret = last.val

\* --i of the iterator i of either class
Decrement(h, i) ==
    IF i.kind = "const_iterator" THEN const_iterator_predec(h, i).it
    ELSE iterator_predec(h, i).it

\* the iterator after n decrements of i
RECURSIVE Decrements(_, _, _)
Decrements(h, i, n) ==
    IF n = 0 THEN i ELSE Decrements(h, Decrement(h, i), n - 1)

\* the iterators of both classes at the positions of list l, end() included
BothIteratorsOf(l) ==
    IteratorsOf(l) \cup {iterator(n, lists[l].temp_node_) : n \in Positions(l)}

\* C24: on a non-empty list decrements wrap for ever: from any position,
\* end() included, every one of a run of decrements (here up to two turns of
\* the ring) leaves the iterator on an element and never on the sentinel;
\* size() decrements of an iterator at an element bring it back to that
\* element, and fewer do not; a --it or it-- the program has just made on a
\* non-empty list has left its iterator on an element.
C24_DecrementWraps ==
    /\ \A l \in Lists : (~fault /\ Usable(l) /\ ~empty(Obj(l))) =>
          \A i \in BothIteratorsOf(l) :
             /\ \A n \in 1..(2 * size(Obj(l)) + 1) :
                   \A j \in {Decrements(heap, i, n)} :
                      /\ j.current_ # lists[l].temp_node_
                      /\ PosIndex(heap, Obj(l), j.current_) \in 1..size(Obj(l))
                      /\ j.kind = i.kind /\ j.temp_node_ = i.temp_node_
             /\ i.current_ # lists[l].temp_node_ =>
                   /\ Decrements(heap, i, size(Obj(l))) = i
                   /\ \A n \in 1..(size(Obj(l)) - 1) : Decrements(heap, i, n) # i
    /\ (last.op \in {"predec", "postdec"} /\ ~empty(Obj(last.l)) /\ it.valid) =>
          /\ it.current_ # lists[last.l].temp_node_
          /\ PosIndex(heap, Obj(last.l), it.current_) \in 1..size(Obj(last.l))

\* C24 witness: it-- of a const_iterator at the first of three elements has
\* wrapped to the last one
C24_Witness ==
    /\ last.op = "postdec" /\ it.valid /\ it.kind = "const_iterator"
    /\ size(Obj(last.l)) = 3
    /\ last.arg = cbegin(heap, Obj(last.l)).current_
    /\ it.current_ = heap[lists[last.l].temp_node_].prev
    /\ Decrements(heap, it, 3) = it

\* ++i, i++, --i, i-- of the iterator i of either class: what the operator
\* yields (threw, the iterator afterwards, the iterator returned)
Step(op, h, i) ==
    IF i.kind = "const_iterator"
    THEN CASE op = "preinc" -> const_iterator_preinc(h, i)
           [] op = "postinc" -> const_iterator_postinc(h, i)
           [] op = "predec" -> const_iterator_predec(h, i)
           [] op = "postdec" -> const_iterator_postdec(h, i)
    ELSE CASE op = "preinc" -> iterator_preinc(h, i)
           [] op = "postinc" -> iterator_postinc(h, i)
           [] op = "predec" -> iterator_predec(h, i)
           [] op = "postdec" -> iterator_postdec(h, i)

\* the iterator i of list l stands on the element next to where it stood
\* when at position k, towards the back (d = 1) or the front (d = -1)
Neighbour(l, i, k, d) == PosIndex(heap, Obj(l), i.current_) = k + d

\* C25: for every iterator or const_iterator at an element, ++ (prefix or
\* postfix) does not throw and moves to the next position (end() after the
\* last element) and a following -- (prefix or postfix) brings it back to the
\* same element; at an element other than the first, -- moves to the element
\* before and a following ++ brings it back; the prefix forms return the new
\* position and the postfix forms the old one.  The same holds of the step
\* the program has just made with its iterator.
C25_StepsUndoEachOther ==
    /\ \A l \in Lists : (~fault /\ Usable(l)) =>
          \A i \in BothIteratorsOf(l) : i.current_ # lists[l].temp_node_ =>
             \A k \in {PosIndex(heap, Obj(l), i.current_)} :
             \A inc \in {"preinc", "postinc"} : \A dec \in {"predec", "postdec"} :
                /\ \A f \in {Step(inc, heap, i)} : \A b \in {Step(dec, heap, f.it)} :
                      /\ ~f.threw /\ ~b.threw
                      /\ Neighbour(l, f.it, k, 1)
                      /\ f.it.current_ = heap[i.current_].next
                      /\ f.ret = IF inc = "preinc" THEN f.it ELSE i
                      /\ b.it = i
                      /\ b.ret = IF dec = "predec" THEN i ELSE f.it
                /\ k > 1 =>
                      \A b \in {Step(dec, heap, i)} : \A f \in {Step(inc, heap, b.it)} :
                         /\ ~b.threw /\ ~f.threw
                         /\ Neighbour(l, b.it, k, -1)
                         /\ b.it.current_ = heap[i.current_].prev
                         /\ b.ret = IF dec = "predec" THEN b.it ELSE i
                         /\ f.it = i
                         /\ f.ret = IF inc = "preinc" THEN i ELSE b.it
    /\ (last.op \in {"preinc", "postinc"} /\ ~last.threw /\ it.valid) =>
          /\ it.current_ = heap[last.arg].next
          /\ Decrement(heap, it).current_ = last.arg
    /\ (last.op \in {"predec", "postdec"} /\ it.valid
          /\ last.arg # lists[last.l].temp_node_
          /\ last.arg # begin(heap, Obj(last.l)).current_) =>
          /\ it.current_ = heap[last.arg].prev
          /\ Step("preinc", heap, it).it.current_ = last.arg

\* C25 witness: it++ has taken an iterator from the last of two or more
\* elements to end(), from where --it leads back to that element
C25_Witness ==
    /\ last.op = "postinc" /\ ~last.threw /\ it.valid /\ it.kind = "iterator"
    /\ size(Obj(last.l)) >= 2
    /\ last.arg = heap[lists[last.l].temp_node_].prev
    /\ it = end(Obj(last.l))
    /\ Step("predec", heap, it).it.current_ = last.arg

\* the calls that put in or take out one element at a position
OneElement == {"emplace", "insert_copy", "insert_move", "erase"}

\* what the call recorded in last' yields on list l of the state before it,
\* with the addresses the code works on
Outcome(l) ==
    IF last'.op = "erase"
    THEN erase(heap, Obj(l), const_iterator(last'.arg, lists[l].temp_node_))
    ELSE emplace(heap, Obj(l), const_iterator(last'.arg, lists[l].temp_node_), last'.val)

\* the position after the call of what was at position k, when the call
\* inserted before, or erased, position p
Shifted(k, p) ==
    IF last'.op = "erase"
    THEN (IF k > p THEN k - 1 ELSE k)
    ELSE (IF k >= p THEN k + 1 ELSE k)

\* C26: a call of emplace, insert or erase that returns leaves every node
\* but the new or the erased one in place with its value, and the nodes that
\* are not next to the position with their links; an iterator the program
\* holds on an element other than the erased one is still valid, is on the
\* same node, dereferences to the same value, and its ++ and -- lead to the
\* neighbours that element has in the new sequence (-- of the first element
\* to the last); an iterator that was equal to end() still is.
C26_OtherNodesUntouched ==
    [][\A l \in Lists :
        (last'.op \in OneElement /\ last'.l = l /\ ~last'.threw /\ ~fault') =>
         \A s \in {lists[l].temp_node_} :
         \A p \in {PosIndex(heap, Obj(l), last'.arg)} :
         \A raw \in {Outcome(l)} :
         \A ren \in {Renaming(AddressOrder(raw.heap, [lists EXCEPT ![l] = Live(raw.list)]))} :
            /\ \A n \in Nodes : (heap[n].alloc /\ n \notin raw.freed) =>
                  /\ raw.heap[n].alloc /\ raw.heap[n].value = heap[n].value
                  /\ ren[n] # NULL
                  /\ heap'[ren[n]].alloc /\ heap'[ren[n]].value = heap[n].value
                  /\ (n \notin {last'.arg, heap[last'.arg].prev, heap[last'.arg].next}) =>
                        /\ raw.heap[n] = heap[n]
                        /\ heap'[ren[n]].next = ren[heap[n].next]
                        /\ heap'[ren[n]].prev = ren[heap[n].prev]
            /\ lists'[l].temp_node_ = ren[s]
            /\ (it.valid /\ it.temp_node_ = s /\ it.current_ \notin raw.freed) =>
                 \A k \in {PosIndex(heap, Obj(l), it.current_)} :
                 \A j \in {Shifted(k, p)} :
                 \A len \in {Len(model'[l])} :
                    /\ it'.valid /\ it'.kind = it.kind
                    /\ it'.current_ = ren[it.current_]
                    /\ it'.temp_node_ = lists'[l].temp_node_
                    /\ PosIndex(heap', Obj(l)', it'.current_) = j
                    /\ it.current_ = s => it'.current_ = end(Obj(l)').current_
                    /\ (it.current_ # s /\ ~IsReverse) =>
                          /\ j \in 1..len
                          /\ model'[l][j] = model[l][k]
                          /\ (IF IsConst THEN const_iterator_deref(heap', it')
                              ELSE iterator_deref(heap', it'))
                                = [threw |-> FALSE, ret |-> heap[it.current_].value]
                          /\ \A f \in {Step("preinc", heap', it')} :
                                /\ ~f.threw
                                /\ PosIndex(heap', Obj(l)', f.it.current_) = j + 1
                          /\ \A b \in {Step("predec", heap', it')} :
                                PosIndex(heap', Obj(l)', b.it.current_)
                                   = IF j = 1 THEN len ELSE j - 1
    ]_vars

\* C26 witness: erase of the second of three elements has left the iterator
\* the program holds on the third element valid, on that element, which is
\* now the second
C26_Witness ==
    /\ last.op = "erase" /\ ~last.threw /\ it.valid /\ it.kind = "iterator"
    /\ Len(model[last.l]) = 2
    /\ it.current_ = last.ret
    /\ PosIndex(heap, Obj(last.l), it.current_) = 2
    /\ iterator_deref(heap, it).ret = model[last.l][2]
    /\ model[last.l][1] # model[last.l][2]

TypeOK ==
    /\ \A l \in Lists : lists[l].size_ \in 0..(SizeModulus - 1)
    /\ fault \in BOOLEAN

====
